---------------------------- MODULE Spec2Model ----------------------------
(***************************************************************************)
(* A model of the manga chapter downloader (src/manga.py).                 *)
(*                                                                         *)
(* The state is the file system the program writes (image files, evidence  *)
(* files, chapter folders, PDF documents), the threads the GUI starts      *)
(* (one download_chapter thread per download, one conversion thread per    *)
(* conversion request), the futures of each download's ThreadPoolExecutor  *)
(* and the GUI thread itself.  The web site is the environment: `site`     *)
(* fixes, for every page image URL, the set of outcomes one GET of that    *)
(* URL may have.                                                           *)
(***************************************************************************)
EXTENDS Integers, Sequences, FiniteSets, TLC

VARIABLES
    series,     \* environment: the <a class="chapter-name"> elements of the series page, in document order
    site,       \* environment: chapter url -> sequence, per <img>, of the outcomes a GET of its src may have
    files,      \* image files on disk: filename -> content
    errfiles,   \* evidence files on disk: error_filename -> response body
    dirs,       \* chapter folders that exist
    pdfs,       \* PDF documents on disk: chapter name -> sequence of page contents
    dl,         \* download_chapter threads
    futures,    \* per download thread: the futures list of its executor
    browsers,   \* number of browser sessions that are open
    gui,        \* the GUI thread
    conv        \* conversion threads

vars == <<series, site, files, errfiles, dirs, pdfs, dl, futures, browsers, gui, conv>>

-----------------------------------------------------------------------------
(* Program constants *)

retry_attempts == 5

max_workers == 8

(* Bounds of the model *)

\* most <img> elements in a chapter page (specification SpecChapter)
MaxPages == 2

\* most <img> elements in a chapter page (specifications Spec and SpecAll)
GuiPages == 1

\* the chapter list is not fetched again once this many browser sessions are open
MaxBrowsers == 1

\* <img> elements of the chapter page in specification SpecPool, beyond max_workers
PoolExtra == 1

\* highest page index of the chapter, and most image files in its folder
\* (specification SpecAssemble)
MaxIndex == 10

MaxStored == 3

\* most <a> elements of the series page (specification SpecSort)
MaxLinks == 3

\* the chapter names the series page may show, and the threads the GUI may start
Chapter1 == <<"Chapter", " ", "1">>

Chapter2 == <<"Chapter", " ", "2">>

ChapterNames == {Chapter1, Chapter2}

DownloadIds == {1, 2}

ConvertIds == {1}

ChapterUrls == {"u1", "u2"}

\* the link texts of the series page in specification SpecSort
Chapter10 == <<"Chapter", " ", "1", "0">>

Chapter12 == <<"Chapter", " ", "1", "2">>

Chapter12_5 == <<"Chapter", " ", "1", "2", ".", "5">>

Chapter13 == <<"Chapter", " ", "1", "3">>

Chapter2_0 == <<"Chapter", " ", "2", ".", "0">>

ChapterExtra == <<"Chapter", " ", "Extra">>

ChapterBonus == <<"Bonus", " ", "Chapter">>

Chapter1Padded == <<" ", "Chapter", " ", "1", " ">>

Volume1 == <<"Volume", " ", "1">>

SortTexts == {Chapter1, Chapter2, Chapter10, Chapter12, Chapter12_5, Chapter13,
              Chapter2_0, ChapterExtra, ChapterBonus}

\* link texts of which several links of the series page may show the same
DuplicateTexts == {Chapter1, Chapter1Padded, Volume1}

\* the href of the i-th <a> element of the series page in specification SpecSort
Hrefs == <<"u1", "u2", "u3", "u4", "u5">>

-----------------------------------------------------------------------------
(* The environment: what one GET of an image URL may produce.              *)
(*   neterr  : SESSION.get raises (no response object)                     *)
(*   http403 : a response whose raise_for_status() raises                  *)
(*   html    : a 2xx response whose Content-Type is not an image           *)
(*   corrupt : a 2xx image response whose bytes PIL cannot decode          *)
(*   ok      : a 2xx image response with a decodable image                 *)

Outcomes == {"neterr", "http403", "html", "corrupt", "ok"}

\* a URL that always behaves the same way, one per outcome
Steady == {{o} : o \in Outcomes}

RECURSIVE Pow2(_)
Pow2(n) == IF n = 0 THEN 1 ELSE 2 * Pow2(n - 1)

\* sequences over S of length 0..n
SeqsUpTo(S, n) == UNION {[1..k -> S] : k \in 0..n}

\* the src of the i-th <img> of the chapter page at chapter_url
img_src(chapter_url, i) == <<chapter_url, i>>

\* the <img> srcs of the chapter page, in document order
container_imgs(chapter_url) ==
    [i \in 1..Len(site[chapter_url]) |-> img_src(chapter_url, i)]

-----------------------------------------------------------------------------
(* File names *)

\* file names counted from 0 (enumerate without start=1)
image_filename_from_zero(download_dir, idx) == <<download_dir, idx - 1>>

\* os.path.join(download_dir, f"{idx}.jpg")
image_filename(download_dir, idx) == <<download_dir, idx>>

\* f"error_{os.path.basename(filename)}.html": relative to the working directory
error_filename(filename) == <<"error_", filename[2], ".jpg.html">>

\* a removal that leaves the file
Remove_nothing(f, name) == f

\* os.remove(name)
Remove(f, name) == [p \in DOMAIN f \ {name} |-> f[p]]

Write(f, name, content) == [p \in DOMAIN f \cup {name} |-> IF p = name THEN content ELSE f[p]]

\* whether PIL decodes the bytes (Image.open / verify / convert)
decodable(content) == content.form \in {"image", "normalized"}


-----------------------------------------------------------------------------
(* download_and_process_image: one future of a download's executor *)

NoResponse == [bound |-> FALSE, kind |-> "none", attempt |-> 0]

\* the future made by executor.submit(download_and_process_image, filename, url)
NewFuture(filename, url) ==
    [filename |-> filename, url |-> url, state |-> "pending", pc |-> "get",
     attempt |-> 0, response |-> NoResponse, gets |-> 0, outcomes |-> <<>>,
     delays |-> <<>>, result |-> "none"]

\* a backoff that grows by one time unit per attempt
backoff_delay_linear(attempt) == attempt + 1

\* time.sleep(2 ** attempt)
backoff_delay(attempt) == Pow2(attempt)

\* a loop that gives up at the first failure
retry_again_never(attempt) == FALSE

\* a loop of one more turn
retry_again_once_more(attempt) == attempt < retry_attempts

\* `if attempt < retry_attempts - 1`: sleep and try again, else give up
retry_again(attempt) == attempt < retry_attempts - 1

\* response.content of a response object
body(url, response) == [url |-> url, kind |-> response.kind, attempt |-> response.attempt]

\* `if 'response' in locals() and response is not None`
has_response(response) == response.bound

\* the outcomes one GET of url may have
url_outcomes(url) == site[url[1]][url[2]]

\* the except clause of download_and_process_image (lines 180-191), entered by
\* future i of download d whose local state is t
ExceptHandler(d, i, t) ==
    /\ files' = IF t.filename \in DOMAIN files THEN Remove(files, t.filename) ELSE files
    /\ IF retry_again(t.attempt)
       THEN /\ futures' = [futures EXCEPT ![d][i] =
                   [t EXCEPT !.pc = "get",
                             !.delays = Append(t.delays, backoff_delay(t.attempt)),
                             !.attempt = t.attempt + 1]]
            /\ UNCHANGED errfiles
       ELSE /\ futures' = [futures EXCEPT ![d][i] =
                   [t EXCEPT !.state = "finished", !.pc = "return", !.result = "gave_up"]]
            /\ errfiles' = IF has_response(t.response)
                           THEN Write(errfiles, error_filename(t.filename),
                                      body(t.url, t.response))
                           ELSE errfiles

\* lines 165-171: the GET, raise_for_status, the Content-Type test and the write of
\* the raw bytes to filename; a failure enters the except clause
download_and_process_image_get(d, i) ==
    LET t == futures[d][i] IN
    /\ t.state = "running" /\ t.pc = "get"
    /\ \E o \in url_outcomes(t.url) :
        LET got == [bound |-> TRUE, kind |-> o, attempt |-> t.attempt]
            t1  == [t EXCEPT !.gets = t.gets + 1, !.outcomes = Append(t.outcomes, o)] IN
        IF o = "neterr"
        THEN ExceptHandler(d, i, t1)
        ELSE IF o \in {"http403", "html"}
        THEN ExceptHandler(d, i, [t1 EXCEPT !.response = got])
        ELSE /\ files' = Write(files, t.filename,
                               [url |-> t.url,
                                form |-> IF o = "ok" THEN "image" ELSE "garbage"])
             /\ futures' = [futures EXCEPT ![d][i] =
                                [t1 EXCEPT !.response = got, !.pc = "verify"]]
             /\ UNCHANGED errfiles
    /\ UNCHANGED <<site, series, dirs, pdfs, dl, browsers, gui, conv>>

\* lines 172-179: Image.open(filename) and verify, the conversion onto a white
\* background and the save over filename; a failure enters the except clause
download_and_process_image_verify(d, i) ==
    LET t == futures[d][i] IN
    /\ t.state = "running" /\ t.pc = "verify"
    /\ IF t.filename \in DOMAIN files /\ decodable(files[t.filename])
       THEN /\ files' = [files EXCEPT ![t.filename].form = "normalized"]
            /\ futures' = [futures EXCEPT ![d][i] =
                   [t EXCEPT !.state = "finished", !.pc = "return", !.result = "saved"]]
            /\ UNCHANGED errfiles
       ELSE ExceptHandler(d, i, t)
    /\ UNCHANGED <<site, series, dirs, pdfs, dl, browsers, gui, conv>>

-----------------------------------------------------------------------------
(* download_images_concurrently: the executor of one download *)

Running(d) == {i \in DOMAIN futures[d] : futures[d][i].state = "running"}

\* a pool whose threads are not used again: it takes max_workers futures in all
worker_free_unused(d) ==
    Cardinality({i \in DOMAIN futures[d] : futures[d][i].state # "pending"}) < max_workers

\* a pool that starts a thread for every future
worker_always_free(d) == Cardinality(Running(d)) >= 0

\* ThreadPoolExecutor(max_workers=8): a worker thread is free to take a future
worker_free(d) == Cardinality(Running(d)) < max_workers

\* the executor's work queue is first in, first out
head_of_queue(d, i) == \A j \in 1..(i - 1) : futures[d][j].state # "pending"

\* a worker thread of the pool takes the next queued future and calls
\* download_and_process_image
worker_take(d, i) ==
    /\ i \in DOMAIN futures[d]
    /\ futures[d][i].state = "pending"
    /\ head_of_queue(d, i)
    /\ worker_free(d)
    /\ futures' = [futures EXCEPT ![d][i].state = "running"]
    /\ UNCHANGED <<site, series, files, errfiles, dirs, pdfs, dl, browsers, gui, conv>>

\* a loop that stops one url early
last_url_short(urls, idx) == idx >= Len(urls) - 1

\* the loop `for idx, url in enumerate(urls, start=1)` has taken its last url
last_url(urls, idx) == idx = Len(urls)

\* lines 199-201: one turn of the loop `for idx, url in enumerate(urls, start=1)`
submit(d) ==
    LET idx == Len(futures[d]) + 1
        urls == dl[d].page_urls IN
    /\ dl[d].pc = "submit"
    /\ idx <= Len(urls)
    /\ futures' = [futures EXCEPT ![d] =
           Append(@, NewFuture(image_filename(dl[d].chapter_name, idx), urls[idx]))]
    /\ dl' = [dl EXCEPT ![d].pc = IF last_url(urls, idx) THEN "as_completed" ELSE "submit"]
    /\ UNCHANGED <<site, series, files, errfiles, dirs, pdfs, browsers, gui, conv>>

\* a coordinator that returns when the first future resolves
first_resolved(d) == \E i \in DOMAIN futures[d] : futures[d][i].state = "finished"

\* as_completed(futures) has yielded every future, and the with block has
\* shut the executor down (wait=True)
all_resolved(d) == \A i \in DOMAIN futures[d] : futures[d][i].state = "finished"

\* lines 202-206 and 223: the loop over as_completed(futures) ends, the executor is
\* shut down, download_images_concurrently returns and download_chapter logs
\* "downloaded successfully"
as_completed(d) ==
    /\ dl[d].pc = "as_completed"
    /\ all_resolved(d)
    /\ dl' = [dl EXCEPT ![d].pc = "done", ![d].report = "downloaded successfully"]
    /\ UNCHANGED <<site, series, files, errfiles, dirs, pdfs, futures, browsers, gui, conv>>

-----------------------------------------------------------------------------
(* fetch_page_links and fetch_page_links_selenium, called by download_chapter *)

\* what a GET of the chapter page may give fetch_page_links: a RequestException,
\* a page without the reader container, a page whose container holds the <img>
\* elements with their src, or one whose <img> elements have no src
PageResponses == {"error", "no_container", "container", "container_nosrc"}

\* [img.get('src') for img in imgs if img.get('src')]
page_links(chapter_url, r) ==
    IF r = "container" THEN container_imgs(chapter_url) ELSE <<>>

\* fetch_page_links returns page_urls to download_chapter (line 214)
ReturnPageLinks(t, page_urls, tier) ==
    [t EXCEPT !.pc = "got_links", !.page_urls = page_urls, !.returned = tier]

\* lines 66-84: one turn of the retry loop of fetch_page_links
fetch_page_links(d) ==
    LET t == dl[d] IN
    /\ t.pc = "fetch_page_links"
    /\ \E r \in PageResponses :
        LET t1 == [t EXCEPT !.requests = t.requests + 1, !.last = r] IN
        dl' = [dl EXCEPT ![d] =
            IF r = "error"
            THEN IF retry_again(t.attempt)
                 THEN [t1 EXCEPT !.attempt = t.attempt + 1]
                 ELSE [t1 EXCEPT !.pc = "selenium_launch"]
            ELSE IF r = "no_container"
            THEN [t1 EXCEPT !.pc = "selenium_launch"]
            ELSE ReturnPageLinks(t1, page_links(t.chapter_url, r), "requests")]
    /\ UNCHANGED <<site, series, files, errfiles, dirs, pdfs, futures, browsers, gui, conv>>

\* lines 39-44 of fetch_page_links_selenium: webdriver.Chrome(options) starts a
\* browser session, or raises
fetch_page_links_selenium_launch(d) ==
    LET t == [dl[d] EXCEPT !.fallbacks = dl[d].fallbacks + 1] IN
    /\ dl[d].pc = "selenium_launch"
    /\ \E started \in BOOLEAN :
        IF started
        THEN /\ browsers' = browsers + 1
             /\ dl' = [dl EXCEPT ![d] = [t EXCEPT !.pc = "selenium_get"]]
        ELSE /\ browsers' = browsers
             /\ dl' = [dl EXCEPT ![d] = ReturnPageLinks(t, <<>>, "selenium")]
    /\ UNCHANGED <<site, series, files, errfiles, dirs, pdfs, futures, gui, conv>>

\* what the browser session may give: driver.get or driver.page_source raises, or
\* a rendered page
RenderedPages == {"raise", "no_container", "container", "container_nosrc"}

\* whether driver.quit() has run when the function leaves with outcome r
session_quit(r) == r # "raise"

\* lines 45-59 of fetch_page_links_selenium
fetch_page_links_selenium_get(d) ==
    /\ dl[d].pc = "selenium_get"
    /\ \E r \in RenderedPages :
        /\ browsers' = IF session_quit(r) THEN browsers - 1 ELSE browsers
        /\ dl' = [dl EXCEPT ![d] =
               ReturnPageLinks(dl[d], page_links(dl[d].chapter_url, r), "selenium")]
    /\ UNCHANGED <<site, series, files, errfiles, dirs, pdfs, futures, gui, conv>>

-----------------------------------------------------------------------------
(* download_chapter: the thread of one download *)

UnusedDownload ==
    [pc |-> "unused", chapter_name |-> <<>>, chapter_url |-> "", attempt |-> 0,
     requests |-> 0, fallbacks |-> 0, returned |-> "no", last |-> "none",
     page_urls |-> <<>>, report |-> "none"]

\* threading.Thread(target=download_chapter, args=(chapter_name, chapter_url)).start()
StartedDownload(chapter_name, chapter_url) ==
    [UnusedDownload EXCEPT !.pc = "fetch_page_links", !.chapter_name = chapter_name,
                           !.chapter_url = chapter_url]

\* lines 215-221, with the locals of fetch_page_links gone: no page found ends
\* the download; else the chapter folder is made
download_chapter(d) ==
    LET t == [dl[d] EXCEPT !.attempt = 0, !.requests = 0, !.fallbacks = 0,
                           !.returned = "no", !.last = "none"] IN
    /\ dl[d].pc = "got_links"
    /\ IF dl[d].page_urls = <<>>
       THEN /\ dl' = [dl EXCEPT ![d] =
                   [t EXCEPT !.pc = "done", !.report = "No page images found"]]
            /\ UNCHANGED dirs
       ELSE /\ dl' = [dl EXCEPT ![d] = [t EXCEPT !.pc = "submit"]]
            /\ dirs' = dirs \cup {dl[d].chapter_name}
    /\ UNCHANGED <<site, series, files, errfiles, pdfs, futures, browsers, gui, conv>>

-----------------------------------------------------------------------------
(* Chapter names, the chapter dict and sort_chapters *)

(* A chapter name is the sequence of the tokens of its text: the word       *)
(* "Chapter", a space, single digits, a dot, or another word.               *)

Digits == {"0", "1", "2", "3", "4", "5", "6", "7", "8", "9"}

DigitValue ==
    [c \in Digits |->
        CASE c = "0" -> 0 [] c = "1" -> 1 [] c = "2" -> 2 [] c = "3" -> 3 [] c = "4" -> 4
          [] c = "5" -> 5 [] c = "6" -> 6 [] c = "7" -> 7 [] c = "8" -> 8 [] c = "9" -> 9]

RECURSIVE Pow10(_)
Pow10(n) == IF n = 0 THEN 1 ELSE 10 * Pow10(n - 1)

\* the length of the longest run of digits of name that starts at position p
RECURSIVE DigitRun(_, _)
DigitRun(name, p) ==
    IF p <= Len(name) /\ name[p] \in Digits THEN 1 + DigitRun(name, p + 1) ELSE 0

\* the number written by the n digits of name from position p
RECURSIVE DigitsNumber(_, _, _)
DigitsNumber(name, p, n) ==
    IF n = 0 THEN 0
    ELSE 10 * DigitsNumber(name, p, n - 1) + DigitValue[name[p + n - 1]]

\* float('inf')
Infinity == [inf |-> TRUE, num |-> 0, den |-> 1]

\* extract_chapter_number: re.search(r'Chapter (\d+(?:\.\d+)?)', chapter_name) as
\* the number num/den, or infinity without a match
extract_chapter_number(name) ==
    LET starts == {p \in 1..Len(name) :
                      /\ name[p] = "Chapter"
                      /\ p + 2 <= Len(name)
                      /\ name[p + 1] = " "
                      /\ name[p + 2] \in Digits} IN
    IF starts = {} THEN Infinity
    ELSE LET p  == CHOOSE q \in starts : \A r \in starts : q <= r
             n  == DigitRun(name, p + 2)
             e  == p + 2 + n
             m  == IF e <= Len(name) /\ name[e] = "." THEN DigitRun(name, e + 1) ELSE 0
         IN [inf |-> FALSE,
             num |-> DigitsNumber(name, p + 2, n) * Pow10(m) + DigitsNumber(name, e + 1, m),
             den |-> Pow10(m)]

\* the order of the floats that are the sort keys
KeyLess(a, b) ==
    IF a.inf THEN FALSE
    ELSE IF b.inf THEN TRUE
    ELSE a.num * b.den < b.num * a.den

\* a sort that is not stable: an item goes before the items of the same key
RECURSIVE InsertSorted_before_equal(_, _)
InsertSorted_before_equal(sorted, item) ==
    IF sorted = <<>> THEN <<item>>
    ELSE LET last == sorted[Len(sorted)] IN
         IF ~KeyLess(extract_chapter_number(last[1]), extract_chapter_number(item[1]))
         THEN Append(InsertSorted_before_equal(SubSeq(sorted, 1, Len(sorted) - 1), item),
                     last)
         ELSE Append(sorted, item)

\* sorted(items, key=...) is stable: an item goes after the items whose key is
\* not greater
RECURSIVE InsertSorted(_, _)
InsertSorted(sorted, item) ==
    IF sorted = <<>> THEN <<item>>
    ELSE LET last == sorted[Len(sorted)] IN
         IF KeyLess(extract_chapter_number(item[1]), extract_chapter_number(last[1]))
         THEN Append(InsertSorted(SubSeq(sorted, 1, Len(sorted) - 1), item), last)
         ELSE Append(sorted, item)

\* sort_chapters: a dict is the sequence of its (name, link) items in insertion order
RECURSIVE sort_chapters(_)
sort_chapters(chapters) ==
    IF chapters = <<>> THEN <<>>
    ELSE InsertSorted(sort_chapters(SubSeq(chapters, 1, Len(chapters) - 1)),
                      chapters[Len(chapters)])

Keys(dict) == {dict[i][1] : i \in DOMAIN dict}

\* dict[name]
Lookup(dict, name) == dict[CHOOSE i \in DOMAIN dict : dict[i][1] = name][2]

\* dict[name] = link: a new key goes last, a key that is there keeps its place and
\* takes the new value
SetItem(dict, name, link) ==
    IF name \in Keys(dict)
    THEN [i \in DOMAIN dict |-> IF dict[i][1] = name THEN <<name, link>> ELSE dict[i]]
    ELSE Append(dict, <<name, link>>)

\* text.strip(): the text without its leading and trailing white space
RECURSIVE strip(_)
strip(text) ==
    IF text = <<>> THEN <<>>
    ELSE IF Head(text) = " " THEN strip(Tail(text))
    ELSE IF text[Len(text)] = " " THEN strip(SubSeq(text, 1, Len(text) - 1))
    ELSE text

\* {ch.text.strip(): ch.get('href') for ch in chapters if ch.get('href')}
RECURSIVE chapter_dict(_)
chapter_dict(anchors) ==
    IF anchors = <<>> THEN <<>>
    ELSE LET ch   == anchors[Len(anchors)]
             rest == chapter_dict(SubSeq(anchors, 1, Len(anchors) - 1)) IN
         IF ch.href # "" THEN SetItem(rest, strip(ch.text), ch.href) ELSE rest

\* `"Chapter" in name`
contains_Chapter(name) == \E p \in DOMAIN name : name[p] = "Chapter"

\* {name: link for name, link in chapters.items() if "Chapter" in name}
filter_chapters(dict) == SelectSeq(dict, LAMBDA item : contains_Chapter(item[1]))

-----------------------------------------------------------------------------
(* fetch_chapter_links and fetch_chapter_links_selenium, called by the GUI *)

\* what a GET of the series page may give fetch_chapter_links: a
\* RequestException, a page without chapter links, or the page with its links
SeriesResponses == {"error", "no_links", "links"}

\* the chapter dict built from a page
chapter_links(r) == IF r = "links" THEN chapter_dict(series) ELSE <<>>

\* fetch_chapter_links returns links to fetch_chapters (line 313)
FetchChaptersReturn(g, links, tier) ==
    [g EXCEPT !.pc = "got_links", !.links = links, !.returned = tier]

\* self.chapters after lines 314-316 of fetch_chapters
listed_chapters(links) == sort_chapters(filter_chapters(links))

\* lines 314-320 of fetch_chapters, with the locals of fetch_chapter_links gone
fetch_chapters_show ==
    /\ gui.pc = "got_links"
    /\ gui' = [gui EXCEPT !.pc = "idle", !.attempt = 0, !.requests = 0, !.fallbacks = 0,
                          !.returned = "no", !.last = "none", !.links = <<>>,
                          !.chapters = listed_chapters(gui.links)]
    /\ UNCHANGED <<site, series, files, errfiles, dirs, pdfs, dl, futures, browsers, conv>>

\* lines 307-313 of fetch_chapters: the handler calls fetch_chapter_links
fetch_chapters ==
    /\ gui.pc = "idle"
    /\ browsers < MaxBrowsers
    /\ gui' = [gui EXCEPT !.pc = "fetch_chapter_links", !.attempt = 0, !.requests = 0,
                          !.fallbacks = 0, !.returned = "no", !.last = "none",
                          !.links = <<>>]
    /\ UNCHANGED <<site, series, files, errfiles, dirs, pdfs, dl, futures, browsers, conv>>

\* lines 114-132: one turn of the retry loop of fetch_chapter_links
fetch_chapter_links ==
    /\ gui.pc = "fetch_chapter_links"
    /\ \E r \in SeriesResponses :
        LET g == [gui EXCEPT !.requests = gui.requests + 1, !.last = r] IN
        gui' = IF r = "error"
               THEN IF retry_again(gui.attempt)
                    THEN [g EXCEPT !.attempt = gui.attempt + 1]
                    ELSE [g EXCEPT !.pc = "selenium_launch"]
               ELSE IF chapter_links(r) = <<>>
               THEN [g EXCEPT !.pc = "selenium_launch"]
               ELSE FetchChaptersReturn(g, chapter_links(r), "requests")
    /\ UNCHANGED <<site, series, files, errfiles, dirs, pdfs, dl, futures, browsers, conv>>

\* lines 91-96 of fetch_chapter_links_selenium: webdriver.Chrome(options) starts a
\* browser session, or raises
fetch_chapter_links_selenium_launch ==
    LET g == [gui EXCEPT !.fallbacks = gui.fallbacks + 1] IN
    /\ gui.pc = "selenium_launch"
    /\ \E started \in BOOLEAN :
        IF started
        THEN /\ browsers' = browsers + 1
             /\ gui' = [g EXCEPT !.pc = "selenium_get"]
        ELSE /\ browsers' = browsers
             /\ gui' = FetchChaptersReturn(g, <<>>, "selenium")
    /\ UNCHANGED <<site, series, files, errfiles, dirs, pdfs, dl, futures, conv>>

\* what the browser session may give for the series page
RenderedSeries == {"raise", "no_links", "links"}

\* lines 97-107 of fetch_chapter_links_selenium
fetch_chapter_links_selenium_get ==
    /\ gui.pc = "selenium_get"
    /\ \E r \in RenderedSeries :
        /\ browsers' = IF session_quit(r) THEN browsers - 1 ELSE browsers
        /\ gui' = FetchChaptersReturn(gui, chapter_links(r), "selenium")
    /\ UNCHANGED <<site, series, files, errfiles, dirs, pdfs, dl, futures, conv>>

-----------------------------------------------------------------------------
(* The buttons of the GUI that start threads *)

Unused(ids) == {d \in ids : dl[d].pc = "unused"}

\* the n-th smallest element of a set of numbers
RECURSIVE Nth(_, _)
Nth(S, n) ==
    LET least == CHOOSE x \in S : \A y \in S : x <= y IN
    IF n = 1 THEN least ELSE Nth(S \ {least}, n - 1)

\* download_selected_chapter (lines 325-334): a thread downloads the chapter that
\* is selected in the listbox
download_selected_chapter(ids, chapter_name) ==
    /\ gui.pc = "idle"
    /\ chapter_name \in Keys(gui.chapters)
    /\ Unused(ids) # {}
    /\ dl' = [dl EXCEPT ![Nth(Unused(ids), 1)] =
                  StartedDownload(chapter_name, Lookup(gui.chapters, chapter_name))]
    /\ UNCHANGED <<site, series, files, errfiles, dirs, pdfs, futures, browsers, gui, conv>>

\* download_all_chapters (lines 336-344): one thread per chapter of self.chapters
download_all_chapters(ids) ==
    LET n == Len(gui.chapters) IN
    /\ gui.pc = "idle"
    /\ n > 0
    /\ Cardinality(Unused(ids)) >= n
    /\ dl' = [d \in DOMAIN dl |->
                IF \E i \in 1..n : d = Nth(Unused(ids), i)
                THEN LET i == CHOOSE j \in 1..n : d = Nth(Unused(ids), j) IN
                     StartedDownload(gui.chapters[i][1], gui.chapters[i][2])
                ELSE dl[d]]
    /\ UNCHANGED <<site, series, files, errfiles, dirs, pdfs, futures, browsers, gui, conv>>

UnusedConvert ==
    [pc |-> "unused", todo |-> <<>>, image_files |-> <<>>, images |-> <<>>, log |-> "none"]

\* convert_selected_to_pdf (lines 346-353): a thread converts the selected chapter
convert_selected_to_pdf(k, chapter_name) ==
    /\ gui.pc = "idle"
    /\ chapter_name \in Keys(gui.chapters)
    /\ conv[k].pc = "unused"
    /\ conv' = [conv EXCEPT ![k] =
                    [UnusedConvert EXCEPT !.pc = "listdir", !.todo = <<chapter_name>>]]
    /\ UNCHANGED <<site, series, files, errfiles, dirs, pdfs, dl, futures, browsers, gui>>

\* convert_all_to_pdf (lines 362-367) and convert_all_chapters_to_pdf: a thread
\* converts the chapters of self.chapters one after the other
convert_all_to_pdf(k) ==
    /\ gui.pc = "idle"
    /\ gui.chapters # <<>>
    /\ conv[k].pc = "unused"
    /\ conv' = [conv EXCEPT ![k] =
                    [UnusedConvert EXCEPT !.pc = "listdir",
                        !.todo = [i \in DOMAIN gui.chapters |-> gui.chapters[i][1]]]]
    /\ UNCHANGED <<site, series, files, errfiles, dirs, pdfs, dl, futures, browsers, gui>>

-----------------------------------------------------------------------------
(* convert_chapter_to_pdf, run by a conversion thread *)

\* the decimal digits of a natural number, as in f"{idx}"
RECURSIVE Decimal(_)
Decimal(n) ==
    LET digit == CHOOSE c \in Digits : DigitValue[c] = n % 10 IN
    IF n < 10 THEN <<digit>> ELSE Append(Decimal(n \div 10), digit)

\* f"{idx}.jpg" (line 200): the name of an image file in its folder
basename(idx) == Append(Decimal(idx), ".jpg")

\* f"{chapter_name}.pdf" (line 249): the name of the document in the folder
pdf_basename(chapter_name) == Append(chapter_name, ".pdf")

\* the names of the files in the folder of the chapter
folder_entries(chapter_name) ==
    {basename(f[2]) : f \in {g \in DOMAIN files : g[1] = chapter_name}}
        \cup (IF chapter_name \in DOMAIN pdfs THEN {pdf_basename(chapter_name)} ELSE {})

\* os.listdir(chapter_dir) gives the names in arbitrary order
listdir(chapter_name) ==
    LET entries == folder_entries(chapter_name) IN
    {q \in [1..Cardinality(entries) -> entries] : \A e \in entries : \E i \in DOMAIN q : q[i] = e}

\* f.lower().endswith('.jpg')
endswith_jpg(f) == f # <<>> /\ f[Len(f)] = ".jpg"

\* a test that lets an empty list through
no_images_never(listed) == FALSE

\* `if not image_files`
no_images(listed) == listed = <<>>

\* int(re.findall(r'\d+', x)[0]): the number written by the first run of digits
page_number(x) ==
    LET p == CHOOSE q \in DOMAIN x : x[q] \in Digits /\ \A r \in 1..(q - 1) : x[r] \notin Digits
    IN DigitsNumber(x, p, DigitRun(x, p))

\* the order of the characters of the file names: "." is before the digits
CharOrd(c) == IF c \in Digits THEN DigitValue[c] + 1 ELSE 0

\* the order of str: x < y
RECURSIVE TextLess(_, _)
TextLess(x, y) ==
    IF y = <<>> THEN FALSE
    ELSE IF x = <<>> THEN TRUE
    ELSE IF Head(x) = Head(y) THEN TextLess(Tail(x), Tail(y))
    ELSE CharOrd(Head(x)) < CharOrd(Head(y))

\* image_files.sort() without the key: the names in the order of str
RECURSIVE InsertByText(_, _)
InsertByText(sorted, file) ==
    IF sorted = <<>> THEN <<file>>
    ELSE LET last == sorted[Len(sorted)] IN
         IF TextLess(file, last)
         THEN Append(InsertByText(SubSeq(sorted, 1, Len(sorted) - 1), file), last)
         ELSE Append(sorted, file)

\* list.sort(key=...) is stable: a name goes after the names whose number is not
\* greater
RECURSIVE InsertByNumber(_, _)
InsertByNumber(sorted, file) ==
    IF sorted = <<>> THEN <<file>>
    ELSE LET last == sorted[Len(sorted)] IN
         IF page_number(file) < page_number(last)
         THEN Append(InsertByNumber(SubSeq(sorted, 1, Len(sorted) - 1), file), last)
         ELSE Append(sorted, file)

\* line 237: image_files.sort(key=lambda x: int(re.findall(r'\d+', x)[0]))
RECURSIVE sort_image_files(_)
sort_image_files(listed) ==
    IF listed = <<>> THEN <<>>
    ELSE InsertByNumber(sort_image_files(SubSeq(listed, 1, Len(listed) - 1)),
                        listed[Len(listed)])

\* os.path.join(chapter_dir, file) for a file named f"{idx}.jpg"
file_path(chapter_name, file) ==
    image_filename(chapter_name, DigitsNumber(file, 1, Len(file) - 1))

\* convert_chapter_to_pdf returns after it logged message: the thread takes its
\* next chapter, if any
ConvertReturn(c, message) ==
    [c EXCEPT !.todo = Tail(c.todo), !.image_files = <<>>, !.images = <<>>,
              !.log = message,
              !.pc = IF Len(c.todo) > 1 THEN "listdir" ELSE "done"]

\* lines 229-237: the folder is looked up, its images are listed and sorted
convert_chapter_to_pdf_listdir(k) ==
    LET c == conv[k]
        chapter_name == Head(c.todo) IN
    /\ c.pc = "listdir"
    /\ IF chapter_name \notin dirs
       THEN conv' = [conv EXCEPT ![k] = ConvertReturn(c, "Chapter folder does not exist")]
       ELSE \E listing \in listdir(chapter_name) :
               LET listed == SelectSeq(listing, endswith_jpg) IN
               conv' = [conv EXCEPT ![k] =
                   IF no_images(listed)
                   THEN ConvertReturn(c, "No images found in the chapter folder")
                   ELSE [c EXCEPT !.pc = "open", !.image_files = sort_image_files(listed)]]
    /\ UNCHANGED <<site, series, files, errfiles, dirs, pdfs, dl, futures, browsers, gui>>

\* lines 240-247: one turn of the loop that opens the listed files; a loop of no
\* turn goes on to line 249
convert_chapter_to_pdf_open(k) ==
    LET c == conv[k]
        path == file_path(Head(c.todo), c.image_files[Len(c.images) + 1]) IN
    /\ c.pc = "open"
    /\ conv' = [conv EXCEPT ![k] =
           IF c.image_files = <<>>
           THEN [c EXCEPT !.pc = "save"]
           ELSE IF path \in DOMAIN files /\ decodable(files[path])
           THEN [c EXCEPT !.images = Append(c.images, files[path]),
                          !.pc = IF Len(c.images) + 1 = Len(c.image_files)
                                 THEN "save" ELSE "open"]
           ELSE ConvertReturn(c, "Error opening image")]
    /\ UNCHANGED <<site, series, files, errfiles, dirs, pdfs, dl, futures, browsers, gui>>

\* lines 249-257: the images are saved as the chapter's PDF
convert_chapter_to_pdf_save(k) ==
    LET c == conv[k] IN
    /\ c.pc = "save"
    /\ IF c.images # <<>>
       THEN /\ pdfs' = Write(pdfs, Head(c.todo), c.images)
            /\ conv' = [conv EXCEPT ![k] = ConvertReturn(c, "PDF saved")]
       ELSE /\ pdfs' = pdfs
            /\ conv' = [conv EXCEPT ![k] = ConvertReturn(c, "No images to convert")]
    /\ UNCHANGED <<site, series, files, errfiles, dirs, dl, futures, browsers, gui>>

-----------------------------------------------------------------------------
(* The program *)

\* the state when the GUI has been built (MangaDownloaderGUI.__init__) on an empty
\* working directory
Started ==
    /\ files = <<>>
    /\ errfiles = <<>>
    /\ dirs = {}
    /\ pdfs = <<>>
    /\ dl = [d \in DownloadIds |-> UnusedDownload]
    /\ futures = [d \in DownloadIds |-> <<>>]
    /\ conv = [k \in ConvertIds |-> UnusedConvert]
    /\ browsers = 0

NewGui ==
    [pc |-> "idle", attempt |-> 0, requests |-> 0, fallbacks |-> 0, returned |-> "no",
     last |-> "none", links |-> <<>>, chapters |-> <<>>]

\* the GUI after fetch_chapters has returned with the links of the series page
FetchedGui == [NewGui EXCEPT !.chapters = listed_chapters(chapter_links("links"))]

\* the steps of download thread d and of the workers of its executor
DownloadThread(d) ==
    \/ fetch_page_links(d)
    \/ fetch_page_links_selenium_launch(d)
    \/ fetch_page_links_selenium_get(d)
    \/ download_chapter(d)
    \/ submit(d)
    \/ \E i \in DOMAIN futures[d] : worker_take(d, i)
    \/ \E i \in DOMAIN futures[d] : download_and_process_image_get(d, i)
    \/ \E i \in DOMAIN futures[d] : download_and_process_image_verify(d, i)
    \/ as_completed(d)

\* the steps of conversion thread k
ConvertThread(k) ==
    \/ convert_chapter_to_pdf_listdir(k)
    \/ convert_chapter_to_pdf_open(k)
    \/ convert_chapter_to_pdf_save(k)

(* Spec: the whole program with one download thread and one conversion     *)
(* thread, on a series of one or two chapters of at most GuiPages pages      *)

TwoChapters == <<[text |-> Chapter1, href |-> "u1"], [text |-> Chapter2, href |-> "u2"]>>

Init ==
    /\ Started
    /\ gui = NewGui
    /\ series \in {SubSeq(TwoChapters, 1, 1), TwoChapters}
    /\ site \in [ChapterUrls -> SeqsUpTo({{"ok"}, {"http403"}}, GuiPages)]

Next ==
    \/ fetch_chapters
    \/ fetch_chapter_links
    \/ fetch_chapter_links_selenium_launch
    \/ fetch_chapter_links_selenium_get
    \/ fetch_chapters_show
    \/ \E name \in ChapterNames : download_selected_chapter({1}, name)
    \/ download_all_chapters({1})
    \/ \E name \in ChapterNames : convert_selected_to_pdf(1, name)
    \/ convert_all_to_pdf(1)
    \/ DownloadThread(1)
    \/ ConvertThread(1)

Spec == Init /\ [][Next]_vars

(* SpecAll: the chapter list is shown and "Download All Chapters" starts one *)
(* thread per chapter                                                        *)

InitAll ==
    /\ Started
    /\ series = TwoChapters
    /\ gui = FetchedGui
    /\ site \in [ChapterUrls -> SeqsUpTo(Steady, GuiPages)]

NextAll ==
    \/ download_all_chapters(DownloadIds)
    \/ \E d \in DownloadIds : DownloadThread(d)

SpecAll == InitAll /\ [][NextAll]_vars

(* SpecChapter: one download of one chapter of at most MaxPages pages, each  *)
(* of any steady behaviour, and one conversion                               *)

InitChapter ==
    /\ Started
    /\ series = <<[text |-> Chapter1, href |-> "u1"]>>
    /\ gui = FetchedGui
    /\ \E pages \in SeqsUpTo(Steady, MaxPages) :
           site = [u \in ChapterUrls |-> IF u = "u1" THEN pages ELSE <<>>]

NextChapter ==
    \/ \E name \in ChapterNames : download_selected_chapter({1}, name)
    \/ \E name \in ChapterNames : convert_selected_to_pdf(1, name)
    \/ DownloadThread(1)
    \/ ConvertThread(1)

SpecChapter == InitChapter /\ [][NextChapter]_vars

(* SpecPool: one download of a chapter with more pages than the pool has     *)
(* workers                                                                   *)

InitPool ==
    /\ Started
    /\ series = <<[text |-> Chapter1, href |-> "u1"]>>
    /\ gui = FetchedGui
    /\ \E n \in 0..(max_workers + PoolExtra) :
           site = [u \in ChapterUrls |-> IF u = "u1" THEN [i \in 1..n |-> {"ok"}] ELSE <<>>]

NextPool ==
    \/ \E name \in ChapterNames : download_selected_chapter({1}, name)
    \/ DownloadThread(1)

SpecPool == InitPool /\ [][NextPool]_vars

(* SpecFair: one download of a chapter of at most MaxPages pages of any     *)
(* steady behaviour, or of one good page more than the pool has workers;    *)
(* every network call returns, and the scheduler lets the download thread   *)
(* and the worker threads of its executor run: as long as one of them can   *)
(* take a step, one of them does                                            *)

InitFair ==
    /\ Started
    /\ series = <<[text |-> Chapter1, href |-> "u1"]>>
    /\ gui = FetchedGui
    /\ \E pages \in SeqsUpTo(Steady, MaxPages)
                    \cup {[i \in 1..(max_workers + 1) |-> {"ok"}]} :
           site = [u \in ChapterUrls |-> IF u = "u1" THEN pages ELSE <<>>]

NextFair ==
    \/ \E name \in ChapterNames : download_selected_chapter({1}, name)
    \/ DownloadThread(1)

SpecFair == InitFair /\ [][NextFair]_vars /\ WF_vars(DownloadThread(1))

(* SpecSort: the chapter list is fetched from a series page of at most       *)
(* MaxLinks links, of different texts of SortTexts or of any texts of        *)
(* DuplicateTexts, whose chapter pages show no image                         *)

\* the sequences of SeqsUpTo(S, n) without a repeated element
DistinctSeqs(S, n) ==
    {q \in SeqsUpTo(S, n) : \A i, j \in DOMAIN q : i # j => q[i] # q[j]}

InitSort ==
    /\ Started
    /\ gui = NewGui
    /\ site = [u \in ChapterUrls |-> <<>>]
    /\ \E texts \in DistinctSeqs(SortTexts, MaxLinks) \cup SeqsUpTo(DuplicateTexts, MaxLinks) :
           series = [i \in DOMAIN texts |-> [text |-> texts[i], href |-> Hrefs[i]]]

NextSort ==
    \/ fetch_chapters
    \/ fetch_chapter_links
    \/ fetch_chapter_links_selenium_launch
    \/ fetch_chapter_links_selenium_get
    \/ fetch_chapters_show

SpecSort == InitSort /\ [][NextSort]_vars

(* SpecAssemble: the program is started on the folder that a download of a  *)
(* chapter of MaxIndex pages has left, in which at most MaxStored pages were *)
(* saved and the others given up, with or without a document made when the  *)
(* first of the images was there; the chapter is converted                  *)

\* the image file that a saved page i has left
stored_image(chapter_url, i) == [url |-> img_src(chapter_url, i), form |-> "normalized"]

\* the evidence file that a page i given up after 403 responses has left
stored_evidence(chapter_url, i) ==
    body(img_src(chapter_url, i),
         [bound |-> TRUE, kind |-> "http403", attempt |-> retry_attempts - 1])

InitAssemble ==
    /\ series = <<[text |-> Chapter1, href |-> "u1"]>>
    /\ gui = FetchedGui
    /\ dl = [d \in DownloadIds |-> UnusedDownload]
    /\ futures = [d \in DownloadIds |-> <<>>]
    /\ conv = [k \in ConvertIds |-> UnusedConvert]
    /\ browsers = 0
    /\ dirs = {Chapter1}
    /\ \E stored \in {S \in SUBSET (1..MaxIndex) : Cardinality(S) <= MaxStored} :
        LET first == CHOOSE i \in stored : \A j \in stored : i <= j IN
        /\ site = [u \in ChapterUrls |->
                      IF u = "u1"
                      THEN [i \in 1..MaxIndex |-> IF i \in stored THEN {"ok"} ELSE {"http403"}]
                      ELSE <<>>]
        /\ files = [f \in {image_filename(Chapter1, i) : i \in stored} |->
                        stored_image("u1", f[2])]
        /\ errfiles = [e \in {error_filename(image_filename(Chapter1, i)) :
                                  i \in (1..MaxIndex) \ stored} |->
                           stored_evidence("u1", e[2])]
        /\ pdfs \in {<<>>} \cup (IF stored = {} THEN {}
                                 ELSE {[n \in {Chapter1} |-> <<stored_image("u1", first)>>]})

NextAssemble ==
    \/ \E name \in ChapterNames : convert_selected_to_pdf(1, name)
    \/ ConvertThread(1)

SpecAssemble == InitAssemble /\ [][NextAssemble]_vars

(* SpecDiscovery: the discovery calls of the GUI and of the download threads *)
(* on a series page of no or one chapter, whose chapter page shows no image  *)

InitDiscovery ==
    /\ Started
    /\ gui = NewGui
    /\ series \in {<<>>, <<[text |-> Chapter1, href |-> "u1"]>>}
    /\ site = [u \in ChapterUrls |-> <<>>]

NextDiscovery ==
    \/ fetch_chapters
    \/ fetch_chapter_links
    \/ fetch_chapter_links_selenium_launch
    \/ fetch_chapter_links_selenium_get
    \/ fetch_chapters_show
    \/ \E name \in ChapterNames : download_selected_chapter(DownloadIds, name)
    \/ \E d \in DownloadIds :
          \/ fetch_page_links(d)
          \/ fetch_page_links_selenium_launch(d)
          \/ fetch_page_links_selenium_get(d)
          \/ download_chapter(d)

SpecDiscovery == InitDiscovery /\ [][NextDiscovery]_vars

(* SpecAttempts: one download of a chapter of one page, each GET of which   *)
(* may have any outcome                                                     *)

InitAttempts ==
    /\ Started
    /\ series = <<[text |-> Chapter1, href |-> "u1"]>>
    /\ gui = FetchedGui
    /\ site = [u \in ChapterUrls |-> IF u = "u1" THEN <<Outcomes>> ELSE <<>>]

NextAttempts ==
    \/ \E name \in ChapterNames : download_selected_chapter({1}, name)
    \/ DownloadThread(1)

SpecAttempts == InitAttempts /\ [][NextAttempts]_vars

-----------------------------------------------------------------------------
(* Properties *)

AllFutures == {<<d, i>> \in DownloadIds \X (1..(max_workers + MaxPages + PoolExtra)) :
                  i \in DOMAIN futures[d]}

Future(t) == futures[t[1]][t[2]]

\* the download coordinator of thread d has completed
Completed(d) == dl[d].pc = "done" /\ dl[d].report = "downloaded successfully"

\* C1 (as stated): a page whose every GET returns 403 is given up after exactly 5
\* attempts and the delays 1, 2, 4, 8 and 16
C1_FiveDelays ==
    \A t \in AllFutures :
        (Future(t).state = "finished" /\ url_outcomes(Future(t).url) = {"http403"})
        => /\ Future(t).result = "gave_up"
           /\ Future(t).gets = 5
           /\ Future(t).delays = <<1, 2, 4, 8, 16>>

\* C1 (amended): a page whose every GET returns 403 is given up after exactly 5
\* attempts with the delays 1, 2, 4 and 8 between them and no delay after the
\* fifth; until then the delays made are the first ones of 1, 2, 4, 8, one per
\* failed attempt
C1_FiveAttemptsFourDelays ==
    \A t \in AllFutures :
        url_outcomes(Future(t).url) = {"http403"}
        => /\ Future(t).delays = SubSeq(<<1, 2, 4, 8>>, 1, Len(Future(t).delays))
           /\ Future(t).state = "running" => Len(Future(t).delays) = Future(t).gets
           /\ Future(t).state = "finished"
              => /\ Future(t).result = "gave_up"
                 /\ Future(t).gets = 5
                 /\ Future(t).delays = <<1, 2, 4, 8>>

\* C1 witness: a page that always returns 403 has been given up
C1_Witness ==
    \E t \in AllFutures :
        /\ url_outcomes(Future(t).url) = {"http403"}
        /\ Future(t).state = "finished"
        /\ Future(t).result = "gave_up"

\* a page of the chapter has ended in failure and its image is not in the folder
HasFailedPage(chapter_name) ==
    \E t \in AllFutures :
        /\ dl[t[1]].chapter_name = chapter_name
        /\ Future(t).result = "gave_up"
        /\ Future(t).filename \notin DOMAIN files

\* every download of the chapter that was started has ended
DownloadsEnded(chapter_name) ==
    \A d \in DownloadIds : dl[d].chapter_name = chapter_name => dl[d].pc = "done"

\* C2: once the download of a chapter has ended with a page in failure, its image
\* absent from the chapter's folder, no step writes a document for that chapter
C2_NoPartialDocument ==
    [][\A name \in ChapterNames :
          (HasFailedPage(name) /\ DownloadsEnded(name) /\ name \in DOMAIN pdfs')
          => (name \in DOMAIN pdfs /\ pdfs'[name] = pdfs[name])]_vars

\* the aggregate status of a completed download: download_chapter reports it with
\* its last log line
overallStatus(d) ==
    IF dl[d].report = "downloaded successfully" THEN "complete" ELSE "partial"

\* C3: a download is reported complete only if every page of it was saved
C3_CompleteOnlyIfAllSaved ==
    \A d \in DownloadIds :
        (dl[d].pc = "done" /\ dl[d].page_urls # <<>> /\ overallStatus(d) = "complete")
        => \A i \in DOMAIN futures[d] : futures[d][i].result = "saved"

\* C4: when the coordinator of a chapter with P page urls completes, there are
\* exactly P futures, the i-th is the one of index i, and each has resolved with
\* exactly one outcome: saved, with its normalized image stored, or given up
C4_OneOutcomePerIndex ==
    \A d \in DownloadIds :
        Completed(d)
        => /\ Len(futures[d]) = Len(dl[d].page_urls)
           /\ \A i \in 1..Len(dl[d].page_urls) :
                LET f == futures[d][i] IN
                /\ f.state = "finished"
                /\ f.filename = <<dl[d].chapter_name, i>>
                /\ \/ /\ f.result = "saved"
                      /\ f.filename \in DOMAIN files
                      /\ files[f.filename].form = "normalized"
                   \/ f.result = "gave_up"

\* C4 witness: a chapter of MaxPages pages has completed with a page saved and a
\* page given up
C4_Witness ==
    \E d \in DownloadIds :
        /\ Completed(d)
        /\ Len(dl[d].page_urls) = MaxPages
        /\ \E i, j \in DOMAIN futures[d] :
              futures[d][i].result = "saved" /\ futures[d][j].result = "gave_up"

\* C5: a future that has given up has left an evidence file under the name made
\* from its page index, holding the body of the response of its last attempt
C5_EvidencePersisted ==
    \A t \in AllFutures :
        Future(t).result = "gave_up"
        => /\ error_filename(Future(t).filename) \in DOMAIN errfiles
           /\ Future(t).response.bound

\* C6: a running future never writes an image file or an evidence file that
\* another future running at that time writes too
C6_DisjointPaths ==
    [][\A t, u \in AllFutures :
          (/\ t # u
           /\ Future(t).state = "running"
           /\ Future(u).state = "running"
           /\ futures'[t[1]][t[2]] # Future(t))
          => /\ files' # files => Future(t).filename # Future(u).filename
             /\ errfiles' # errfiles
                => error_filename(Future(t).filename) # error_filename(Future(u).filename)]_vars

\* C7: the coordinator returns only after every submitted future has run and
\* resolved, whatever the outcomes of its siblings
C7_JoinAll ==
    \A d \in DownloadIds :
        dl[d].pc = "done" /\ dl[d].page_urls # <<>>
        => /\ Len(futures[d]) = Len(dl[d].page_urls)
           /\ \A i \in DOMAIN futures[d] :
                /\ futures[d][i].state = "finished"
                /\ futures[d][i].gets >= 1
                /\ futures[d][i].result # "none"

\* C7 witness: the coordinator has returned after the first page was given up and
\* a later page was saved
C7_Witness ==
    \E d \in DownloadIds :
        /\ dl[d].pc = "done"
        /\ Len(futures[d]) >= 2
        /\ futures[d][1].result = "gave_up"
        /\ futures[d][2].result = "saved"

\* C8: at most 8 futures of a download are running
C8_PoolWidth ==
    \A d \in DownloadIds : Cardinality(Running(d)) <= 8

\* C8 witness: 8 futures are running and another one waits in the queue
C8_Witness ==
    \E d \in DownloadIds :
        /\ Cardinality(Running(d)) = 8
        /\ \E i \in DOMAIN futures[d] : futures[d][i].state = "pending"

\* C9: the future, the file and the outcome of index i are those of the i-th
\* discovered page url
C9_IndexOrder ==
    \A d \in DownloadIds :
        \A i \in DOMAIN futures[d] :
            LET f == futures[d][i]
                url == dl[d].page_urls[i] IN
            /\ f.url = url
            /\ f.filename[2] = i
            /\ <<dl[d].chapter_name, i>> \in DOMAIN files
               => files[<<dl[d].chapter_name, i>>].url = url
            /\ f.result = "saved" => "ok" \in url_outcomes(url)
            /\ f.result = "gave_up" => url_outcomes(url) # {"ok"}

\* C9 witness: of two pages the second resolved first, and the first was saved
\* while the second was given up
C9_Witness ==
    \E d \in DownloadIds :
        /\ Len(futures[d]) >= 2
        /\ futures[d][1].state = "running"
        /\ futures[d][2].result = "gave_up"
        /\ <<dl[d].chapter_name, 2>> \notin DOMAIN files

\* C10: discovery returns an empty result only after the rendering fallback was
\* invoked in that call
C10_EmptyOnlyAfterFallback ==
    /\ \A d \in DownloadIds :
          (dl[d].pc = "got_links" /\ dl[d].page_urls = <<>>) => dl[d].fallbacks >= 1
    /\ (gui.pc = "got_links" /\ gui.links = <<>>) => gui.fallbacks >= 1

\* the discovery calls that hold a browser session: they are between
\* webdriver.Chrome(options) and their return
open_sessions ==
    Cardinality({d \in DownloadIds : dl[d].pc = "selenium_get"})
        + (IF gui.pc = "selenium_get" THEN 1 ELSE 0)

\* C11: every browser session that is open belongs to a rendered fetch that has
\* not yet returned: a rendered fetch that has returned has left no session open
C11_SessionTornDown == browsers = open_sessions

\* a future of a download of the chapter has not resolved
UnresolvedTask(chapter_name) ==
    \E t \in AllFutures :
        dl[t[1]].chapter_name = chapter_name /\ Future(t).state # "finished"

\* C12: a conversion thread lists the folder of a chapter, or opens one of its
\* image files, only when no future of a download of that chapter is unresolved
C12_AssembleAfterTasks ==
    [][\A k \in ConvertIds :
          (conv[k].pc \in {"listdir", "open"} /\ conv'[k] # conv[k])
          => ~UnresolvedTask(Head(conv[k].todo))]_vars

\* the names of the items of a dict, in their order
Names(dict) == [i \in DOMAIN dict |-> dict[i][1]]

\* the place of the item of that name in a dict
IndexOf(dict, name) == CHOOSE i \in DOMAIN dict : dict[i][1] = name

\* out holds the items of the dict in, each once, by ascending key, the names
\* without a number after the others, items of the same key in the order of in
SortedStable(in, out) ==
    LET key(i) == extract_chapter_number(out[i][1]) IN
    /\ Len(out) = Len(in)
    /\ {out[i] : i \in DOMAIN out} = {in[i] : i \in DOMAIN in}
    /\ \A i, j \in DOMAIN out :
          i < j => /\ ~KeyLess(key(j), key(i))
                   /\ key(i).inf => key(j).inf
                   /\ ~KeyLess(key(i), key(j))
                      => IndexOf(in, out[i][1]) < IndexOf(in, out[j][1])

\* C13: the chapter list that fetch_chapters shows is the dict given to
\* sort_chapters in ascending order of the number after "Chapter ", stable, the
\* names without a number last; "Chapter 1", "Chapter 10", "Chapter 2" are shown
\* as 1, 2, 10, and "Chapter 12.5" is shown between 12 and 13
C13_SortedByNumber ==
    [][gui.pc = "got_links"
       => LET in  == filter_chapters(gui.links)
              out == gui'.chapters IN
          /\ SortedStable(in, out)
          /\ Names(in) = <<Chapter1, Chapter10, Chapter2>>
             => Names(out) = <<Chapter1, Chapter2, Chapter10>>
          /\ Names(in) = <<Chapter13, Chapter12_5, Chapter12>>
             => Names(out) = <<Chapter12, Chapter12_5, Chapter13>>]_vars

\* C13 witness: the series page lists "Chapter 1", "Chapter 10", "Chapter 2" and
\* the chapter list shows them as 1, 2, 10
C13_Witness ==
    /\ [i \in DOMAIN series |-> series[i].text] = <<Chapter1, Chapter10, Chapter2>>
    /\ Names(gui.chapters) = <<Chapter1, Chapter2, Chapter10>>

\* the <a> elements of the series page that have an href and, trimmed, that text
Occurrences(name) ==
    {i \in DOMAIN series : strip(series[i].text) = name /\ series[i].href # ""}

\* C14: the chapter dict that discovery returns has exactly one entry for each
\* trimmed link text, and the entry holds the href of the first link of that text
C14_FirstOccurrenceKept ==
    gui.pc = "got_links"
    => \A name \in Keys(gui.links) :
          /\ Cardinality({i \in DOMAIN gui.links : gui.links[i][1] = name}) = 1
          /\ Occurrences(name) # {}
          /\ \E i \in Occurrences(name) :
                /\ \A j \in Occurrences(name) : i <= j
                /\ Lookup(gui.links, name) = series[i].href

\* the image files in the folder of the chapter
ChapterImages(chapter_name) == {f \in DOMAIN files : f[1] = chapter_name}

\* C15: the conversion of a chapter whose folder is missing or holds no image
\* ends at once with the error that tells so; it writes no document and leaves
\* the folder as it is
C15_EmptyChapterNoDocument ==
    [][\A k \in ConvertIds :
          (/\ conv[k].pc = "listdir"
           /\ conv'[k] # conv[k]
           /\ (Head(conv[k].todo) \notin dirs \/ ChapterImages(Head(conv[k].todo)) = {}))
          => /\ conv'[k].log = IF Head(conv[k].todo) \notin dirs
                               THEN "Chapter folder does not exist"
                               ELSE "No images found in the chapter folder"
             /\ conv'[k].todo = Tail(conv[k].todo)
             /\ conv'[k].images = <<>>
             /\ pdfs' = pdfs
             /\ files' = files
             /\ dirs' = dirs]_vars

\* C15 witness: the conversion of a chapter whose folder exists and holds no image
\* has ended with the error, and there is no document
C15_Witness ==
    \E k \in ConvertIds :
        /\ conv[k].pc = "done"
        /\ conv[k].log = "No images found in the chapter folder"
        /\ Chapter1 \in dirs
        /\ ChapterImages(Chapter1) = {}
        /\ Chapter1 \notin DOMAIN pdfs

\* the page index of a page of a document
PageIndex(page) == page.url[2]

\* C16: the document that a conversion has saved holds the images stored in the
\* chapter's folder, each once, in strictly increasing page index
C16_PagesByIndex ==
    \A k \in ConvertIds :
        (conv[k].pc = "done" /\ conv[k].log = "PDF saved")
        => LET doc == pdfs[Chapter1] IN
           /\ \A i, j \in DOMAIN doc : i < j => PageIndex(doc[i]) < PageIndex(doc[j])
           /\ {doc[i] : i \in DOMAIN doc} = {files[f] : f \in ChapterImages(Chapter1)}
           /\ Len(doc) = Cardinality(ChapterImages(Chapter1))

\* C16 witness: a document was saved from pages 2 and 10 and another page
C16_Witness ==
    \E k \in ConvertIds :
        /\ conv[k].pc = "done" /\ conv[k].log = "PDF saved"
        /\ {image_filename(Chapter1, 2), image_filename(Chapter1, 10)} \subseteq DOMAIN files
        /\ Len(pdfs[Chapter1]) = 3

\* the rendering fallback of a discovery call t is due: the last lightweight
\* request was the one that lacked the structure, or the 5th that failed, all
\* requests before it having failed, and no request was made since
FallbackDue(t, lacks_structure) ==
    /\ t.requests = t.attempt + 1
    /\ \/ lacks_structure
       \/ t.last = "error" /\ t.requests = 5

\* the two tiers of a discovery call t, whose lightweight tier runs at pc loop
TwoTiers(t, loop, lacks_structure) ==
    /\ t.fallbacks <= 1
    /\ t.pc = loop
       => t.fallbacks = 0 /\ t.requests = t.attempt /\ t.last \in {"none", "error"}
    /\ t.pc = "selenium_launch" => t.fallbacks = 0 /\ FallbackDue(t, lacks_structure)
    /\ t.pc = "selenium_get" => t.fallbacks = 1 /\ FallbackDue(t, lacks_structure)
    /\ t.pc = "got_links"
       => \/ /\ t.fallbacks = 0
             /\ t.returned = "requests"
             /\ t.requests = t.attempt + 1
             /\ t.last # "error" /\ ~lacks_structure
          \/ /\ t.fallbacks = 1
             /\ t.returned = "selenium"
             /\ FallbackDue(t, lacks_structure)

\* C17: a discovery call invokes the rendering fallback at most once, and only
\* right after a lightweight response without the structure or after the 5th
\* lightweight request in a row has failed; after the fallback no lightweight
\* request is made and the call returns what the fallback gave
C17_FallbackOnceAfterLightweight ==
    /\ \A d \in DownloadIds :
          TwoTiers(dl[d], "fetch_page_links", dl[d].last = "no_container")
    /\ TwoTiers(gui, "fetch_chapter_links",
                gui.last \in {"no_links", "links"} /\ chapter_links(gui.last) = <<>>)

\* C17 witness: a page discovery has returned from the fallback that it invoked
\* after 5 failed requests, and a chapter discovery has returned from the
\* fallback that it invoked after its first response showed no chapter link
C17_Witness ==
    /\ \E d \in DownloadIds :
          /\ dl[d].pc = "got_links" /\ dl[d].fallbacks = 1
          /\ dl[d].requests = 5 /\ dl[d].last = "error"
    /\ gui.pc = "got_links" /\ gui.fallbacks = 1
    /\ gui.requests = 1 /\ gui.last = "no_links"

\* C18: every image file in a chapter folder holds a validated and normalized
\* image
C18_OnlyNormalizedVisible ==
    \A f \in DOMAIN files : files[f].form = "normalized"

\* the attempts of a future whose except clause has run
Handled(f) ==
    IF f.pc = "verify" \/ (f.outcomes # <<>> /\ f.outcomes[Len(f.outcomes)] = "ok")
    THEN Len(f.outcomes) - 1
    ELSE Len(f.outcomes)

\* the position of the first successful attempt of a sequence of outcomes, or 5
FirstSuccess(outcomes) ==
    IF \E j \in DOMAIN outcomes : outcomes[j] = "ok"
    THEN CHOOSE j \in DOMAIN outcomes :
             outcomes[j] = "ok" /\ \A i \in 1..(j - 1) : outcomes[i] # "ok"
    ELSE 5

\* C19: whatever the outcomes of its attempts, a future makes an attempt only
\* after a failed one, at most 5 in all; the failed attempt a (from 0) is followed
\* by the delay 2^a when a < 4 and by no delay when a = 4; it ends at its first
\* successful attempt, or at its 5th
C19_AttemptSchedule ==
    \A t \in AllFutures :
        LET f == Future(t)
            n == Len(f.outcomes) IN
        /\ n = f.gets
        /\ n <= 5
        /\ \A j \in 1..(n - 1) : f.outcomes[j] # "ok"
        /\ f.delays = SubSeq(<<1, 2, 4, 8>>, 1, IF Handled(f) < 4 THEN Handled(f) ELSE 4)
        /\ f.state = "finished"
           => /\ n = FirstSuccess(f.outcomes)
              /\ f.result = (IF f.outcomes[n] = "ok" THEN "saved" ELSE "gave_up")
        /\ (f.state # "finished" /\ f.pc = "get") => n < 5

\* C19 witness: a future has met a transport error, an HTTP error, a response
\* that is no image and an undecodable image, and has saved the page at its 5th
\* attempt
C19_Witness ==
    \E t \in AllFutures :
        /\ Future(t).state = "finished"
        /\ Future(t).outcomes = <<"neterr", "http403", "html", "corrupt", "ok">>
        /\ Future(t).delays = <<1, 2, 4, 8>>
        /\ Future(t).result = "saved"

\* C20: after a failed attempt of a future its image file is absent, and when
\* the future has returned the file exists if and only if an attempt succeeded
C20_FileIffSuccess ==
    \A t \in AllFutures :
        LET f == Future(t) IN
        /\ (f.state = "running" /\ f.pc = "get" /\ f.gets >= 1)
           => f.filename \notin DOMAIN files
        /\ f.state = "finished"
           => /\ f.filename \in DOMAIN files
                 <=> \E j \in DOMAIN f.outcomes : f.outcomes[j] = "ok"
              /\ f.result = "gave_up" => f.filename \notin DOMAIN files

\* C20 witness: a future has given up after an attempt that wrote an undecodable
\* image to its file, and the file is absent
C20_Witness ==
    \E t \in AllFutures :
        /\ Future(t).state = "finished"
        /\ Future(t).result = "gave_up"
        /\ \E j \in DOMAIN Future(t).outcomes : Future(t).outcomes[j] = "corrupt"
        /\ Future(t).filename \notin DOMAIN files

\* download_images_concurrently of download d has returned, every url having its
\* future, and every future having run and resolved
ReturnedAllDone(d) ==
    /\ dl[d].pc = "done"
    /\ Len(futures[d]) = Len(dl[d].page_urls)
    /\ \A i \in DOMAIN futures[d] :
          futures[d][i].state = "finished" /\ futures[d][i].gets >= 1

\* C21: once download_images_concurrently is called, eventually the call has
\* returned with every future started and finished, whatever the number of pages
\* and the pages that fail
C21_EventuallyReturns ==
    (\E d \in DownloadIds : dl[d].pc = "submit")
        ~> (\A d \in DownloadIds : dl[d].pc # "unused" => ReturnedAllDone(d))

\* C21 witness: the call has returned for a chapter of more pages than the pool
\* has workers
C21_Witness ==
    \E d \in DownloadIds :
        /\ ReturnedAllDone(d)
        /\ Len(futures[d]) > 8

=============================================================================
